---- MODULE Spec2Model ----
(***************************************************************************)
(* Batch lifecycle of the address validation and address recognition       *)
(* pipelines: services/address_validation.py, services/address_recognition *)
(* .py, the endpoints of api/v1/endpoints/addresses.py and the worker jobs *)
(* of workers/jobs.py, over a PostgreSQL database (READ COMMITTED) and an  *)
(* ARQ queue.                                                              *)
(***************************************************************************)
EXTENDS Integers, Sequences, FiniteSets, TLC

(***************************************************************************)
(* Bounds of the model.                                                    *)
(***************************************************************************)
\* longest payload a Create request carries
MaxLen == 2
\* batch ids one run allocates
MaxBatches == 2
\* concurrent request handlers and worker jobs
NumProcs == 2
\* dispatch events one batch receives before Requeue is no longer issued
MaxEvents == 1

(***************************************************************************)
(* JSON values.  A string is a sequence of one-character strings, so that  *)
(* strip(), upper() and lower() are computed, not assumed.                 *)
(***************************************************************************)
NoneV == [t |-> "none"]
StrV(s) == [t |-> "str", s |-> s]
IntV(n) == [t |-> "int", n |-> n]
Dict(d) == [t |-> "dict", d |-> d]

IsNone(v) == v.t = "none"
IsStr(v) == v.t = "str"
IsInt(v) == v.t = "int"
IsDict(v) == v.t = "dict"

LowerCase == <<"a", "c", "e", "k", "n", "o", "s", "u", "w", "y">>
UpperCase == <<"A", "C", "E", "K", "N", "O", "S", "U", "W", "Y">>

\* str.upper() / str.lower() on one character
UpperChar(c) ==
    IF \E i \in 1..Len(LowerCase) : LowerCase[i] = c
    THEN UpperCase[CHOOSE i \in 1..Len(LowerCase) : LowerCase[i] = c]
    ELSE c

LowerChar(c) ==
    IF \E i \in 1..Len(UpperCase) : UpperCase[i] = c
    THEN LowerCase[CHOOSE i \in 1..Len(UpperCase) : UpperCase[i] = c]
    ELSE c

\* str.swapcase(), which is not idempotent
swapcase(s) ==
    [i \in 1..Len(s) |-> IF UpperChar(s[i]) = s[i] THEN LowerChar(s[i]) ELSE UpperChar(s[i])]
upper(s) == [i \in 1..Len(s) |-> UpperChar(s[i])]
lower(s) == [i \in 1..Len(s) |-> LowerChar(s[i])]

\* str.strip(): leading and trailing whitespace removed
strip(s) ==
    LET keep == {i \in 1..Len(s) : s[i] # " "}
    IN  IF keep = {} THEN <<>>
        ELSE SubSeq(s, CHOOSE i \in keep : \A j \in keep : i <= j,
                       CHOOSE i \in keep : \A j \in keep : j <= i)

\* Python truthiness of a JSON value: None, "", 0 and {} are falsy
Truthy(v) ==
    CASE IsNone(v) -> FALSE
      [] IsStr(v)  -> v.s # <<>>
      [] IsInt(v)  -> v.n # 0
      [] IsDict(v) -> DOMAIN v.d # {}

unknown == <<"u", "n", "k", "n", "o", "w", "n">>
yes == <<"y", "e", "s">>
no == <<"n", "o">>
\* ResidentialIndicator = Literal["unknown", "yes", "no"]
ResidentialIndicator == {unknown, yes, no}

(***************************************************************************)
(* schemas/addresses.py                                                    *)
(***************************************************************************)
OptionalStrFields ==
    {"name", "phone", "email", "company_name", "address_line2", "address_line3"}
RequiredStrFields == {"address_line1", "city_locality", "state_province"}
AddressFields ==
    OptionalStrFields \cup RequiredStrFields
        \cup {"postal_code", "country_code", "address_residential_indicator"}

\* Field(min_length=1) of address_line1, city_locality, state_province
MinLength == 1
\* Field(min_length=2, max_length=2) of country_code
CountryCodeLength == 2

\* AddressIn.normalize_residential_indicator (mode="before")
normalize_residential_indicator(v) ==
    IF IsNone(v) THEN StrV(unknown)
    ELSE IF IsStr(v) /\ lower(strip(v.s)) \in ResidentialIndicator
         THEN StrV(lower(strip(v.s)))
         ELSE StrV(unknown)

\* whether AddressIn.model_validate(d) (and AddressOut, its subclass) accepts d
AddressIn_ok(d) ==
    /\ \A k \in OptionalStrFields :
          k \in DOMAIN d => (IsNone(d[k]) \/ IsStr(d[k]))
    /\ \A k \in RequiredStrFields :
          k \in DOMAIN d /\ IsStr(d[k]) /\ Len(d[k].s) >= MinLength
    /\ "postal_code" \in DOMAIN d =>
          (IsNone(d["postal_code"]) \/ IsStr(d["postal_code"]) \/ IsInt(d["postal_code"]))
    /\ "country_code" \in DOMAIN d
    /\ IsStr(d["country_code"])
    /\ Len(d["country_code"].s) = CountryCodeLength

\* AddressIn.model_validate(d).model_dump() for an accepted d: every field
\* present, absent optional fields None, the indicator through its validator
AddressIn(d) ==
    [k \in AddressFields |->
        IF k = "address_residential_indicator"
        THEN IF k \in DOMAIN d THEN normalize_residential_indicator(d[k])
             ELSE StrV(unknown)
        ELSE IF k \in DOMAIN d THEN d[k] ELSE NoneV]

AddressOut_ok(d) == AddressIn_ok(d)
AddressOut(d) == AddressIn(d)

KnownValuesFields ==
    {"name", "address_line1", "address_line2", "address_line3", "city_locality",
     "state_province", "postal_code", "country_code", "address_residential_indicator"}

\* whether AddressRecognizeKnownValues.model_validate(d) accepts d
AddressRecognizeKnownValues_ok(d) ==
    /\ \A k \in (KnownValuesFields \ {"postal_code", "address_residential_indicator"}) :
          k \in DOMAIN d => (IsNone(d[k]) \/ IsStr(d[k]))
    /\ "postal_code" \in DOMAIN d =>
          (IsNone(d["postal_code"]) \/ IsStr(d["postal_code"]) \/ IsInt(d["postal_code"]))
    /\ "address_residential_indicator" \in DOMAIN d =>
          \/ IsNone(d["address_residential_indicator"])
          \/ /\ IsStr(d["address_residential_indicator"])
             /\ d["address_residential_indicator"].s \in ResidentialIndicator

AddressRecognizeKnownValues(d) ==
    [k \in KnownValuesFields |-> IF k \in DOMAIN d THEN d[k] ELSE NoneV]

\* whether AddressRecognizeIn.model_validate(d) accepts d
AddressRecognizeIn_ok(d) ==
    /\ "text" \in DOMAIN d
    /\ IsStr(d["text"])
    /\ Len(d["text"].s) >= MinLength
    /\ "address" \in DOMAIN d =>
          \/ IsNone(d["address"])
          \/ IsDict(d["address"]) /\ AddressRecognizeKnownValues_ok(d["address"].d)

\* AddressRecognizeIn.model_validate(d).model_dump()
AddressRecognizeIn(d) ==
    [text |-> d["text"],
     address |-> IF "address" \in DOMAIN d /\ IsDict(d["address"])
                 THEN Dict(AddressRecognizeKnownValues(d["address"].d))
                 ELSE NoneV]

(***************************************************************************)
(* services/address_validation.py, services/address_recognition.py: the    *)
(* pure part.                                                              *)
(***************************************************************************)
\* AddressValidationService._normalize
_normalize(addr) ==
    [key \in DOMAIN addr \cup {"address_residential_indicator"} |->
        IF key \notin DOMAIN addr THEN StrV(unknown)
        ELSE IF IsStr(addr[key])
             THEN IF key = "address_residential_indicator"
                  THEN IF lower(strip(addr[key].s)) \in ResidentialIndicator
                       THEN StrV(lower(strip(addr[key].s)))
                       ELSE StrV(unknown)
                  ELSE IF key = "email"
                       THEN StrV(lower(strip(addr[key].s)))
                       ELSE StrV(upper(strip(addr[key].s)))
             ELSE addr[key]]

\* the messages of AddressValidationService._status_and_messages, as
\* model_dump() gives them
missing_postal_code ==
    [code |-> "missing_postal_code",
     message |-> "postal_code is recommended for US",
     level |-> "warning"]

_status_and_messages(addr) ==
    [status |-> "verified",
     messages |-> IF /\ upper(addr["country_code"].s) = <<"U", "S">>
                     /\ ~Truthy(addr["postal_code"])
                  THEN <<missing_postal_code>>
                  ELSE <<>>]

\* AddressRecognitionService._recognize_one
_recognize_one(addr) ==
    [k \in DOMAIN addr \cup {"address_residential_indicator"} |->
        IF k \notin DOMAIN addr THEN StrV(unknown)
        ELSE IF IsStr(addr[k])
             THEN IF k = "country_code" THEN StrV(upper(strip(addr[k].s)))
                  ELSE IF k = "email" THEN StrV(lower(strip(addr[k].s)))
                  ELSE IF k = "address_residential_indicator"
                       THEN IF lower(strip(strip(addr[k].s))) \in ResidentialIndicator
                            THEN StrV(lower(strip(strip(addr[k].s))))
                            ELSE StrV(unknown)
                       ELSE StrV(upper(strip(addr[k].s)))
             ELSE IF k = "address_residential_indicator" /\ IsNone(addr[k])
                  THEN StrV(unknown)
                  ELSE addr[k]]

\* original_for_out of validate_and_store: the indicator of the echoed
\* original address, defaulted
original_for_out(original_dict) ==
    LET ari == IF "address_residential_indicator" \in DOMAIN original_dict
               THEN original_dict["address_residential_indicator"]
               ELSE NoneV
    IN  IF IsStr(ari)
        THEN [original_dict EXCEPT !["address_residential_indicator"] =
                 IF lower(strip(ari.s)) \in ResidentialIndicator
                 THEN StrV(lower(strip(ari.s)))
                 ELSE StrV(unknown)]
        ELSE IF IsNone(ari)
             THEN [k \in DOMAIN original_dict \cup {"address_residential_indicator"} |->
                      IF k = "address_residential_indicator" THEN StrV(unknown)
                      ELSE original_dict[k]]
             ELSE original_dict

(***************************************************************************)
(* Requests.  The endpoints receive request bodies FastAPI has validated:  *)
(* list[AddressIn] for validate, list[AddressRecognizeIn] for recognize.   *)
(***************************************************************************)
\* a US address without postal code
RawUS ==
    [address_line1 |-> StrV(<<"a">>), city_locality |-> StrV(<<"a">>),
     state_province |-> StrV(<<"c", "a">>), country_code |-> StrV(<<"u", "s">>)]
\* an address whose address_line1 is one space: min_length=1 accepts it
RawBlank ==
    [address_line1 |-> StrV(<<" ">>), city_locality |-> StrV(<<"a">>),
     state_province |-> StrV(<<"c", "a">>), country_code |-> StrV(<<"c", "a">>),
     postal_code |-> IntV(1),
     address_residential_indicator |-> StrV(<<" ", "Y", "e", "s">>)]
\* a Canadian address without postal code
RawCA ==
    [address_line1 |-> StrV(<<"a">>), city_locality |-> StrV(<<"a">>),
     state_province |-> StrV(<<"o", "n">>), country_code |-> StrV(<<"c", "a">>)]
RawText == [text |-> StrV(<<"a">>)]
RawKnown ==
    [text |-> StrV(<<" ", "a">>),
     address |-> Dict([address_line1 |-> StrV(<<" ", "a">>),
                       country_code |-> StrV(<<"u", "s">>)])]

ValidationRequests == {AddressIn(r) : r \in {r \in {RawUS, RawBlank} : AddressIn_ok(r)}}
RecognitionRequests ==
    {AddressRecognizeIn(r) : r \in {r \in {RawText, RawKnown} : AddressRecognizeIn_ok(r)}}

Payloads(S) == UNION {[1..n -> S] : n \in 0..MaxLen}

\* the payloads with a third kind of record
MoreValidationPayloads ==
    Payloads(ValidationRequests \cup {AddressIn(RawCA)}) \ Payloads(ValidationRequests)

\* stored records written under an earlier schema: no longer parseable
LegacyAddress == [name |-> StrV(<<"a">>)]
LegacyRecognize == [address |-> NoneV]

Pipelines == {"validation", "recognition"}
Procs == 1..NumProcs
BatchIds == 1..MaxBatches
BatchStatus == {"queued", "processing", "completed", "failed"}

VARIABLES
    pipeline,   \* the pipeline this run exercises (the two share no table)
    batches,    \* committed batch rows, by id
    items,      \* committed item rows, in insertion order
    next_id,    \* the next fresh batch id (uuid4)
    lock,       \* holder of each batch row's FOR UPDATE lock, 0 when free
    sent,       \* enqueue_job calls made for each batch id
    passes,     \* history: item-generation passes committed for each batch
                \* since it was created or last requeued
    pc,         \* where each request handler / worker job stands
    loc,        \* its local variables
    resp        \* history: what the request or job the last step completed
                \* returned or raised (for a worker job, where it returned);
                \* NoResp when the last step completed none

vars == <<pipeline, batches, items, next_id, lock, sent, passes, pc, loc, resp>>

NoRow == [status |-> "absent", request_payload |-> <<>>]
NoLoc == [batch_id |-> 0, status |-> "", payload |-> <<>>]
NoResp == [op |-> "", status |-> "", batch_id |-> 0, results |-> <<>>]

Exists(b) == batches[b].status # "absent"
ItemsOf(b) == SelectSeq(items, LAMBDA it : it.batch_id = b)
ItemsNotOf(b) == SelectSeq(items, LAMBDA it : it.batch_id # b)
\* a DELETE of b's items by w waits while another transaction has deleted
\* one of them and not yet committed
ItemsLockedByOther(w, b) ==
    \E i \in 1..Len(items) : items[i].batch_id = b /\ items[i].xmax \notin {0, w}
MarkItems(w, b) ==
    [i \in 1..Len(items) |->
        IF items[i].batch_id = b THEN [items[i] EXCEPT !.xmax = w] ELSE items[i]]
UnmarkItems(w) ==
    [i \in 1..Len(items) |->
        IF items[i].xmax = w THEN [items[i] EXCEPT !.xmax = 0] ELSE items[i]]

\* a lock on the whole table: the SELECT returns once no row is locked
lock_table(b) == \A k \in BatchIds : lock[k] = 0

\* .with_for_update(): the SELECT of batch row b returns once no other
\* transaction holds the row's lock
without_for_update(b) == TRUE

with_for_update(b) == lock[b] = 0

\* redis.enqueue_job(job, str(batch_id)): one more dispatch event for b
enqueue_job_dropped(b) == sent

enqueue_job(b) == [sent EXCEPT ![b] = @ + 1]

\* w's request or job ends with response r
Finish(w, r) ==
    /\ pc' = [pc EXCEPT ![w] = "idle"]
    /\ loc' = [loc EXCEPT ![w] = NoLoc]
    /\ resp' = r

\* w goes on to its next statement
Goto(w, label, l) ==
    /\ pc' = [pc EXCEPT ![w] = label]
    /\ loc' = [loc EXCEPT ![w] = l]
    /\ resp' = NoResp

\* created_at, server_default now(): the rows a transaction inserts all get
\* the time t at which the transaction began
func_now(rows, t) == [i \in 1..Len(rows) |-> [rows[i] EXCEPT !.created_at = t]]

Result(op, status, b, results) ==
    [op |-> op, status |-> status, batch_id |-> b, results |-> results]

(***************************************************************************)
(* Validation pipeline                                                     *)
(***************************************************************************)
\* the AddressValidationItem rows one pass over a parsed payload adds
ValidationItems(b, addresses) ==
    [i \in 1..Len(addresses) |->
        [batch_id |-> b,
         status |-> _status_and_messages(addresses[i]).status,
         original_address |-> addresses[i],
         matched_address |-> _normalize(addresses[i]),
         messages |-> _status_and_messages(addresses[i]).messages,
         created_at |-> 0,
         xmax |-> 0]]

\* the AddressValidationResultOut list validate_and_store returns
ValidationResults(addresses) ==
    [i \in 1..Len(addresses) |->
        [status |-> _status_and_messages(addresses[i]).status,
         original_address |-> AddressOut(original_for_out(addresses[i])),
         matched_address |-> AddressOut(_normalize(addresses[i])),
         messages |-> _status_and_messages(addresses[i]).messages]]

\* validate_addresses, async: create_queued_batch commits the batch
create_queued_batch(w, addresses) ==
    /\ pipeline = "validation"
    /\ pc[w] = "idle"
    /\ next_id <= MaxBatches
    /\ batches' = [batches EXCEPT ![next_id] =
                      [status |-> "queued", request_payload |-> addresses]]
    /\ next_id' = next_id + 1
    /\ Goto(w, "validate_enqueue", [NoLoc EXCEPT !.batch_id = next_id])
    /\ UNCHANGED <<pipeline, items, lock, sent, passes>>

\* validate_addresses, async: enqueue_job and the 202 response
validate_addresses_enqueue(w) ==
    /\ pc[w] = "validate_enqueue"
    /\ sent' = enqueue_job(loc[w].batch_id)
    /\ Finish(w, Result("validate_async", "202", loc[w].batch_id, <<>>))
    /\ UNCHANGED <<pipeline, batches, items, next_id, lock, passes>>

\* validate_addresses, sync: validate_and_store, one transaction; a
\* ValidationError of AddressOut.model_validate rolls it back
validate_and_store(w, addresses) ==
    /\ pipeline = "validation"
    /\ pc[w] = "idle"
    /\ next_id <= MaxBatches
    /\ IF \A i \in 1..Len(addresses) :
             /\ AddressOut_ok(original_for_out(addresses[i]))
             /\ AddressOut_ok(_normalize(addresses[i]))
       THEN /\ batches' = [batches EXCEPT ![next_id] =
                              [status |-> "completed", request_payload |-> addresses]]
            /\ items' = items \o ValidationItems(next_id, addresses)
            /\ next_id' = next_id + 1
            /\ Finish(w, Result("validate_sync", "200", next_id,
                                ValidationResults(addresses)))
       ELSE /\ UNCHANGED <<batches, items, next_id>>
            /\ Finish(w, Result("validate_sync", "500", 0, <<>>))
    /\ UNCHANGED <<pipeline, lock, sent, passes>>

\* process_existing_batch: the idempotency guard, on the loaded status and
\* the existing-item query
always_reprocess(status, b) == FALSE

already_processed(status, b) == status = "completed" /\ ItemsOf(b) # <<>>

\* process_existing_batch: every id is taken to have a row
batch_never_None(b) == FALSE

\* process_existing_batch: batch is None
batch_is_None(b) == batches[b] = NoRow

\* validate_addresses_batch: the worker job starts, with its own session
validate_addresses_batch(w, b) ==
    /\ pipeline = "validation"
    /\ pc[w] = "idle"
    /\ Goto(w, "process_begin", [NoLoc EXCEPT !.batch_id = b])
    /\ UNCHANGED <<pipeline, batches, items, next_id, lock, sent, passes>>

\* process_existing_batch: SELECT ... FOR UPDATE waits for the row lock and
\* loads the row as committed then
process_existing_batch_lock(w) ==
    /\ pc[w] = "process_begin"
    /\ with_for_update(loc[w].batch_id)
    /\ IF batch_is_None(loc[w].batch_id)
       THEN /\ Finish(w, Result("process", "missing", loc[w].batch_id, <<>>))
            /\ UNCHANGED lock
       ELSE /\ lock' = [lock EXCEPT ![loc[w].batch_id] = w]
            /\ Goto(w, "process_locked",
                    [batch_id |-> loc[w].batch_id,
                     status |-> batches[loc[w].batch_id].status,
                     payload |-> batches[loc[w].batch_id].request_payload])
    /\ UNCHANGED <<pipeline, batches, items, next_id, sent, passes>>

\* process_existing_batch from the existing-item query to the end of its
\* transaction, which releases the row lock
process_existing_batch_run(w) ==
    LET b == loc[w].batch_id
        payload == loc[w].payload
    IN  /\ pc[w] = "process_locked"
        /\ IF already_processed(loc[w].status, b)
           THEN /\ UNCHANGED <<batches, items, passes>>
                /\ Finish(w, Result("process", "skipped", b, <<>>))
           ELSE IF payload = <<>>
           THEN /\ batches' = [batches EXCEPT ![b].status = "failed"]
                /\ UNCHANGED <<items, passes>>
                /\ Finish(w, Result("process", "failed", b, <<>>))
           ELSE /\ ~ItemsLockedByOther(w, b)
                /\ IF \A i \in 1..Len(payload) : AddressIn_ok(payload[i])
                   THEN /\ batches' = [batches EXCEPT ![b].status = "completed"]
                        /\ items' = ItemsNotOf(b) \o
                              func_now(ValidationItems(b, [i \in 1..Len(payload) |->
                                                              AddressIn(payload[i])]),
                                       passes[b] + 1)
                        /\ passes' = [passes EXCEPT ![b] = @ + 1]
                        /\ Finish(w, Result("process", "completed", b, <<>>))
                   ELSE /\ UNCHANGED <<batches, items, passes>>
                        /\ Finish(w, Result("process", "raised", b, <<>>))
        /\ lock' = [k \in BatchIds |-> IF lock[k] = w THEN 0 ELSE lock[k]]
        /\ UNCHANGED <<pipeline, next_id, sent>>

\* delete_validation_batch -> delete_batch: session.get
delete_batch_get(w, b) ==
    /\ pipeline = "validation"
    /\ pc[w] = "idle"
    /\ IF ~Exists(b)
       THEN Finish(w, Result("delete", "404", b, <<>>))
       ELSE Goto(w, "delete_items", [NoLoc EXCEPT !.batch_id = b])
    /\ UNCHANGED <<pipeline, batches, items, next_id, lock, sent, passes>>

\* delete_batch: DELETE of the batch's items (uncommitted: the rows are
\* locked, and still visible to the other transactions)
delete_batch_items(w) ==
    /\ pc[w] = "delete_items"
    /\ ~ItemsLockedByOther(w, loc[w].batch_id)
    /\ items' = MarkItems(w, loc[w].batch_id)
    /\ Goto(w, "delete_commit", loc[w])
    /\ UNCHANGED <<pipeline, batches, next_id, lock, sent, passes>>

\* only the rows that w's DELETE of the items found are removed
delete_found_items(w, b) == SelectSeq(items, LAMBDA it : it.xmax # w)

\* ForeignKey(..., ondelete="CASCADE"): the DELETE of batch row b removes
\* every item of b, those committed after w's DELETE of the items too
ondelete_cascade(w, b) == ItemsNotOf(b)

\* delete_batch: session.delete(batch) flushed at commit; it waits for the
\* row lock, and ON DELETE CASCADE removes every item of the batch
delete_batch_commit(w) ==
    /\ pc[w] = "delete_commit"
    /\ lock[loc[w].batch_id] = 0
    /\ batches' = [batches EXCEPT ![loc[w].batch_id] = NoRow]
    /\ items' = ondelete_cascade(w, loc[w].batch_id)
    /\ Finish(w, Result("delete", "204", loc[w].batch_id, <<>>))
    /\ UNCHANGED <<pipeline, next_id, lock, sent, passes>>

\* requeue_batch: in-flight work is not requeued
requeue_in_flight(status) == FALSE

requeue_refused(status) == status = "processing"

\* requeue_batch: any payload is requeued
requeue_any_payload(payload) == FALSE

\* requeue_batch: not batch.request_payload
requeue_nothing_stored(payload) == payload = <<>>

\* requeue_batch: the items stay
requeue_keeps_items(b) == items

\* requeue_batch: delete(AddressValidationItem).where(batch_id == b)
requeue_delete_items(b) == ItemsNotOf(b)

\* requeue_validation_batch -> requeue_batch: SELECT ... FOR UPDATE
requeue_batch_lock(w, b) ==
    /\ pipeline = "validation"
    /\ pc[w] = "idle"
    /\ sent[b] < MaxEvents
    /\ with_for_update(b)
    /\ IF ~Exists(b)
       THEN /\ Finish(w, Result("requeue", "404", b, <<>>))
            /\ UNCHANGED lock
       ELSE /\ lock' = [lock EXCEPT ![b] = w]
            /\ Goto(w, "requeue_locked",
                    [batch_id |-> b, status |-> batches[b].status,
                     payload |-> batches[b].request_payload])
    /\ UNCHANGED <<pipeline, batches, items, next_id, sent, passes>>

\* requeue_batch under the row lock, to the end of its transaction; the
\* endpoint turns RuntimeError into 409 and a False result into 404
requeue_batch_run(w) ==
    LET b == loc[w].batch_id
    IN  /\ pc[w] = "requeue_locked"
        /\ IF requeue_refused(loc[w].status)
           THEN /\ UNCHANGED <<batches, items, passes>>
                /\ Finish(w, Result("requeue", "409", b, <<>>))
           ELSE IF requeue_nothing_stored(loc[w].payload)
           THEN /\ batches' = [batches EXCEPT ![b].status = "failed"]
                /\ UNCHANGED <<items, passes>>
                /\ Finish(w, Result("requeue", "404", b, <<>>))
           ELSE /\ ~ItemsLockedByOther(w, b)
                /\ batches' = [batches EXCEPT ![b].status = "queued"]
                /\ items' = requeue_delete_items(b)
                /\ passes' = [passes EXCEPT ![b] = 0]
                /\ Goto(w, "requeue_enqueue", loc[w])
        /\ lock' = [k \in BatchIds |-> IF lock[k] = w THEN 0 ELSE lock[k]]
        /\ UNCHANGED <<pipeline, next_id, sent>>

\* requeue_validation_batch: enqueue_job after a successful requeue
requeue_validation_batch_enqueue(w) ==
    /\ pc[w] = "requeue_enqueue"
    /\ sent' = enqueue_job(loc[w].batch_id)
    /\ Finish(w, Result("requeue", "202", loc[w].batch_id, <<>>))
    /\ UNCHANGED <<pipeline, batches, items, next_id, lock, passes>>

\* w holds the row lock of its batch and its DELETE of the items waits for
\* a delete_batch transaction
WaitsForItems(w) ==
    /\ pc[w] \in {"process_locked", "requeue_locked"}
    /\ ItemsLockedByOther(w, loc[w].batch_id)
    /\ ~(pc[w] = "process_locked" /\ already_processed(loc[w].status, loc[w].batch_id))
    /\ ~requeue_refused(loc[w].status) \/ pc[w] = "process_locked"
    /\ loc[w].payload # <<>>

\* w has deleted the items and its DELETE of the batch row waits for the
\* holder of the row lock
WaitsForRow(w) ==
    /\ pc[w] = "delete_commit"
    /\ lock[loc[w].batch_id] \notin {0, w}

\* delete_batch locks items then batch row, requeue_batch and
\* process_existing_batch lock batch row then items: PostgreSQL ends the
\* deadlock by aborting one of the two transactions, whose request fails
DeadlockAbort(w) ==
    /\ \/ WaitsForItems(w) /\ \E v \in Procs : WaitsForRow(v) /\ lock[loc[v].batch_id] = w
       \/ WaitsForRow(w) /\ WaitsForItems(lock[loc[w].batch_id])
    /\ items' = UnmarkItems(w)
    /\ lock' = [b \in BatchIds |-> IF lock[b] = w THEN 0 ELSE lock[b]]
    /\ Finish(w, Result("deadlock", "500", loc[w].batch_id, <<>>))
    /\ UNCHANGED <<pipeline, batches, next_id, sent, passes>>

(***************************************************************************)
(* Recognition pipeline                                                    *)
(***************************************************************************)
\* the AddressRecognitionItem rows process_existing_batch adds for a parsed
\* payload
RecognitionItems(b, addresses) ==
    [i \in 1..Len(addresses) |->
        LET original == IF IsDict(addresses[i].address)
                        THEN addresses[i].address.d ELSE <<>>
        IN  [batch_id |-> b,
             status |-> "completed",
             recognized |-> [original_address |-> original,
                             recognized_address |-> _recognize_one(original)],
             created_at |-> 0,
             xmax |-> 0]]

\* the AddressRecognitionItem rows recognize_and_store adds: it is handed
\* the request records themselves
RecognitionStoreItems(b, addresses) ==
    [i \in 1..Len(addresses) |->
        [batch_id |-> b,
         status |-> "completed",
         recognized |-> [original_address |-> addresses[i],
                         recognized_address |-> _recognize_one(addresses[i])],
         created_at |-> 0,
         xmax |-> 0]]

RecognitionResults(addresses) ==
    [i \in 1..Len(addresses) |->
        [status |-> "recognized",
         original_address |-> AddressOut(addresses[i]),
         recognized_address |-> AddressOut(_recognize_one(addresses[i]))]]

\* recognize_addresses, async: create_queued_batch commits the batch
recognition_create_queued_batch(w, addresses) ==
    /\ pipeline = "recognition"
    /\ pc[w] = "idle"
    /\ next_id <= MaxBatches
    /\ batches' = [batches EXCEPT ![next_id] =
                      [status |-> "queued", request_payload |-> addresses]]
    /\ next_id' = next_id + 1
    /\ Goto(w, "recognize_enqueue", [NoLoc EXCEPT !.batch_id = next_id])
    /\ UNCHANGED <<pipeline, items, lock, sent, passes>>

\* recognize_addresses, async: enqueue_job and the 202 response
recognize_addresses_enqueue(w) ==
    /\ pc[w] = "recognize_enqueue"
    /\ sent' = enqueue_job(loc[w].batch_id)
    /\ Finish(w, Result("recognize_async", "202", loc[w].batch_id, <<>>))
    /\ UNCHANGED <<pipeline, batches, items, next_id, lock, passes>>

\* recognize_addresses, sync: recognize_and_store; nothing is committed
\* when AddressOut.model_validate raises
recognize_and_store(w, addresses) ==
    /\ pipeline = "recognition"
    /\ pc[w] = "idle"
    /\ next_id <= MaxBatches
    /\ IF \A i \in 1..Len(addresses) :
             /\ AddressOut_ok(addresses[i])
             /\ AddressOut_ok(_recognize_one(addresses[i]))
       THEN /\ batches' = [batches EXCEPT ![next_id] =
                              [status |-> "completed", request_payload |-> addresses]]
            /\ items' = items \o RecognitionStoreItems(next_id, addresses)
            /\ next_id' = next_id + 1
            /\ Finish(w, Result("recognize_sync", "200", next_id,
                                RecognitionResults(addresses)))
       ELSE /\ UNCHANGED <<batches, items, next_id>>
            /\ Finish(w, Result("recognize_sync", "500", 0, <<>>))
    /\ UNCHANGED <<pipeline, lock, sent, passes>>

\* process_existing_batch: the batch is in flight or done
recognition_skips(status) == status \in {"processing", "completed"}

\* recognize_addresses_batch: the worker job starts, with its own session
recognize_addresses_batch(w, b) ==
    /\ pipeline = "recognition"
    /\ pc[w] = "idle"
    /\ Goto(w, "recognition_begin", [NoLoc EXCEPT !.batch_id = b])
    /\ UNCHANGED <<pipeline, batches, items, next_id, lock, sent, passes>>

\* process_existing_batch: session.get and the checks on what it read
recognition_process_get(w) ==
    LET b == loc[w].batch_id
    IN  /\ pc[w] = "recognition_begin"
        /\ IF batch_is_None(b)
           THEN Finish(w, Result("process", "missing", b, <<>>))
           ELSE IF recognition_skips(batches[b].status)
           THEN Finish(w, Result("process", "skipped", b, <<>>))
           ELSE Goto(w, "recognition_mark",
                     [batch_id |-> b, status |-> batches[b].status,
                      payload |-> batches[b].request_payload])
        /\ UNCHANGED <<pipeline, batches, items, next_id, lock, sent, passes>>

\* process_existing_batch: status failed or processing, committed
recognition_process_mark(w) ==
    /\ pc[w] = "recognition_mark"
    /\ IF loc[w].payload = <<>>
       THEN /\ batches' = [batches EXCEPT ![loc[w].batch_id].status = "failed"]
            /\ Finish(w, Result("process", "failed", loc[w].batch_id, <<>>))
       ELSE /\ batches' = [batches EXCEPT ![loc[w].batch_id].status = "processing"]
            /\ Goto(w, "recognition_delete", loc[w])
    /\ UNCHANGED <<pipeline, items, next_id, lock, sent, passes>>

\* process_existing_batch: DELETE of the items the statement sees
recognition_process_delete(w) ==
    /\ pc[w] = "recognition_delete"
    /\ ~ItemsLockedByOther(w, loc[w].batch_id)
    /\ items' = MarkItems(w, loc[w].batch_id)
    /\ Goto(w, "recognition_insert", loc[w])
    /\ UNCHANGED <<pipeline, batches, next_id, lock, sent, passes>>

\* process_existing_batch: parse, add the items, status completed, commit;
\* a ValidationError ends the job and the session rolls the DELETE back
recognition_process_commit(w) ==
    LET b == loc[w].batch_id
        payload == loc[w].payload
    IN  /\ pc[w] = "recognition_insert"
        /\ IF \A i \in 1..Len(payload) : AddressRecognizeIn_ok(payload[i])
           THEN /\ items' = SelectSeq(items, LAMBDA it : it.xmax # w) \o
                      func_now(RecognitionItems(b, [i \in 1..Len(payload) |->
                                                       AddressRecognizeIn(payload[i])]),
                               passes[b] + 1)
                /\ batches' = [batches EXCEPT ![b].status = "completed"]
                /\ passes' = [passes EXCEPT ![b] = @ + 1]
                /\ Finish(w, Result("process", "completed", b, <<>>))
           ELSE /\ items' = UnmarkItems(w)
                /\ UNCHANGED <<batches, passes>>
                /\ Finish(w, Result("process", "raised", b, <<>>))
        /\ UNCHANGED <<pipeline, next_id, lock, sent>>

(***************************************************************************)
(* Reads                                                                   *)
(***************************************************************************)
\* whether PartialAddressOut.model_validate(d) accepts d
PartialAddressOut_ok(d) ==
    /\ \A k \in (AddressFields \ {"postal_code", "address_residential_indicator"}) :
          k \in DOMAIN d => (IsNone(d[k]) \/ IsStr(d[k]))
    /\ "postal_code" \in DOMAIN d =>
          (IsNone(d["postal_code"]) \/ IsStr(d["postal_code"]) \/ IsInt(d["postal_code"]))
    /\ "address_residential_indicator" \in DOMAIN d =>
          \/ IsNone(d["address_residential_indicator"])
          \/ /\ IsStr(d["address_residential_indicator"])
             /\ d["address_residential_indicator"].s \in ResidentialIndicator

\* PartialAddressOut.model_validate(d).model_dump(): absent fields None
PartialAddressOut(d) ==
    [k \in AddressFields |-> IF k \in DOMAIN d THEN d[k] ELSE NoneV]

\* ORDER BY created_at: the orders in which the database may return rows;
\* the order among rows of equal created_at is not specified
order_by_created_at(rows) ==
    {[i \in 1..Len(rows) |-> rows[p[i]]] :
        p \in {q \in Permutations(1..Len(rows)) :
                  \A i, j \in 1..Len(rows) :
                      i < j => rows[q[i]].created_at <= rows[q[j]].created_at}}

\* the AddressValidationResultOut built from item row r
AddressValidationResultOut(r) ==
    [status |-> r.status,
     original_address |-> AddressOut(r.original_address),
     matched_address |-> AddressOut(r.matched_address),
     messages |-> r.messages]

\* get_validation_results -> get_batch_results: the responses the request
\* for b can get in this state: 404 without rows, 500 when a stored
\* address fails AddressOut, else the results in the order of the rows
get_batch_results(b) ==
    {IF rows = <<>>
     THEN Result("fetch", "404", b, <<>>)
     ELSE IF \E i \in 1..Len(rows) :
                \/ ~AddressOut_ok(rows[i].original_address)
                \/ ~AddressOut_ok(rows[i].matched_address)
     THEN Result("fetch", "500", b, <<>>)
     ELSE Result("fetch", "200", b,
                 [i \in 1..Len(rows) |-> AddressValidationResultOut(rows[i])]) :
        rows \in order_by_created_at(ItemsOf(b))}

\* the AddressRecognizeResultOut built from item row r
AddressRecognizeResultOut(r) ==
    [status |-> "recognized",
     original_address |-> PartialAddressOut(r.recognized.original_address),
     recognized_address |-> PartialAddressOut(r.recognized.recognized_address)]

\* get_recognition_results: the responses the request for b can get
recognition_results(b) ==
    {IF rows = <<>>
     THEN Result("fetch", "404", b, <<>>)
     ELSE IF \E i \in 1..Len(rows) :
                \/ ~PartialAddressOut_ok(rows[i].recognized.original_address)
                \/ ~PartialAddressOut_ok(rows[i].recognized.recognized_address)
     THEN Result("fetch", "500", b, <<>>)
     ELSE Result("fetch", "200", b,
                 [i \in 1..Len(rows) |-> AddressRecognizeResultOut(rows[i])]) :
        rows \in order_by_created_at(ItemsOf(b))}

\* the fetch of b's results, of either pipeline
FetchResults(b) ==
    IF pipeline = "validation" THEN get_batch_results(b)
    ELSE recognition_results(b)

\* get_validation_results: one SELECT, and the response
get_validation_results(w, b) ==
    /\ pipeline = "validation"
    /\ pc[w] = "idle"
    /\ \E r \in get_batch_results(b) : Finish(w, r)
    /\ UNCHANGED <<pipeline, batches, items, next_id, lock, sent, passes>>

\* get_recognition_results: one SELECT, and the response
get_recognition_results(w, b) ==
    /\ pipeline = "recognition"
    /\ pc[w] = "idle"
    /\ \E r \in recognition_results(b) : Finish(w, r)
    /\ UNCHANGED <<pipeline, batches, items, next_id, lock, sent, passes>>

\* AddressValidationBatch.created_at: batches are inserted one transaction
\* after the other and numbered in that order
batch_created_at(b) == b

\* the batches the statement of list_batches selects, with WHERE status
\* when a filter is given, ORDER BY created_at DESC
list_batches_rows(status_filter) ==
    LET S == {b \in BatchIds : /\ Exists(b)
                               /\ status_filter # "" => batches[b].status = status_filter}
        by_created_desc[n \in 0..Cardinality(S)] ==
            IF n = 0 THEN <<>>
            ELSE LET rest == S \ {by_created_desc[n - 1][i] : i \in 1..(n - 1)}
                 IN  Append(by_created_desc[n - 1],
                            CHOOSE b \in rest :
                                \A c \in rest : batch_created_at(c) <= batch_created_at(b))
    IN  by_created_desc[Cardinality(S)]

\* the ValidationBatchOut of batch b: count(AddressValidationItem.id) over
\* the outer join
ValidationBatchOut(b) ==
    [id |-> b,
     status |-> batches[b].status,
     items_count |-> Len(ItemsOf(b)),
     request_payload |-> batches[b].request_payload]

\* list_batches: LIMIT limit of the selected rows, the offset ignored
list_batches_first_page(limit, offset, status_filter) ==
    LET rows == list_batches_rows(status_filter)
    IN  [i \in 1..(IF Len(rows) < limit THEN Len(rows) ELSE limit) |->
            ValidationBatchOut(rows[i])]

\* list_batches: OFFSET offset LIMIT limit of the selected rows
list_batches(limit, offset, status_filter) ==
    LET rows == list_batches_rows(status_filter)
    IN  [i \in 1..(IF Len(rows) - offset < 0 THEN 0
                   ELSE IF Len(rows) - offset < limit THEN Len(rows) - offset
                   ELSE limit) |-> ValidationBatchOut(rows[offset + i])]

\* list_validation_batches: limit >= 1 and offset >= 0 by the Query
\* constraints, no status filter is ""; the response carries the query
\* parameters in front of the page
list_validation_batches(w, limit, offset, status_filter) ==
    /\ pipeline = "validation"
    /\ pc[w] = "idle"
    /\ Finish(w, Result("list", "200", 0,
                        <<[limit |-> limit, offset |-> offset,
                           status_filter |-> status_filter]>>
                        \o list_batches(limit, offset, status_filter)))
    /\ UNCHANGED <<pipeline, batches, items, next_id, lock, sent, passes>>

(***************************************************************************)
(* The system                                                              *)
(***************************************************************************)
\* an empty database
Init ==
    /\ pipeline \in Pipelines
    /\ batches = [b \in BatchIds |-> NoRow]
    /\ items = <<>>
    /\ next_id = 1
    /\ lock = [b \in BatchIds |-> 0]
    /\ sent = [b \in BatchIds |-> 0]
    /\ passes = [b \in BatchIds |-> 0]
    /\ pc = [w \in Procs |-> "idle"]
    /\ loc = [w \in Procs |-> NoLoc]
    /\ resp = NoResp

\* request_payload values a batch row written before this deployment holds
StoredPayloads ==
    IF pipeline = "validation"
    THEN {<<>>, <<LegacyAddress>>} \cup {<<a>> : a \in ValidationRequests}
    ELSE {<<>>, <<LegacyRecognize>>} \cup {<<a>> : a \in RecognitionRequests}

\* a database that already holds one batch row, of any status the column
\* admits, with no items
InitStored ==
    /\ pipeline \in Pipelines
    /\ \E st \in BatchStatus : \E p \in StoredPayloads :
          batches = [b \in BatchIds |->
                        IF b = 1 THEN [status |-> st, request_payload |-> p]
                        ELSE NoRow]
    /\ items = <<>>
    /\ next_id = 2
    /\ lock = [b \in BatchIds |-> 0]
    /\ sent = [b \in BatchIds |-> 0]
    /\ passes = [b \in BatchIds |-> 0]
    /\ pc = [w \in Procs |-> "idle"]
    /\ loc = [w \in Procs |-> NoLoc]
    /\ resp = NoResp

\* the steps of the requests and jobs of w that write
Steps(w) ==
    \/ \E addresses \in Payloads(ValidationRequests) :
          \/ create_queued_batch(w, addresses)
          \/ validate_and_store(w, addresses)
    \/ validate_addresses_enqueue(w)
    \/ \E b \in BatchIds :
          \/ validate_addresses_batch(w, b)
          \/ delete_batch_get(w, b)
          \/ requeue_batch_lock(w, b)
          \/ recognize_addresses_batch(w, b)
    \/ process_existing_batch_lock(w)
    \/ process_existing_batch_run(w)
    \/ delete_batch_items(w)
    \/ delete_batch_commit(w)
    \/ requeue_batch_run(w)
    \/ requeue_validation_batch_enqueue(w)
    \/ \E addresses \in Payloads(RecognitionRequests) :
          \/ recognition_create_queued_batch(w, addresses)
          \/ recognize_and_store(w, addresses)
    \/ recognize_addresses_enqueue(w)
    \/ recognition_process_get(w)
    \/ recognition_process_mark(w)
    \/ recognition_process_delete(w)
    \/ recognition_process_commit(w)

Next == \E w \in Procs : Steps(w) \/ DeadlockAbort(w)

Spec == Init /\ [][Next]_vars

\* the requests that only read
Reads(w) ==
    \/ \E b \in BatchIds :
          \/ get_validation_results(w, b)
          \/ get_recognition_results(w, b)
    \/ \E limit \in 1..MaxBatches : \E offset \in 0..MaxBatches :
          \E status_filter \in BatchStatus \cup {""} :
              list_validation_batches(w, limit, offset, status_filter)

\* the requests and jobs run one after the other, each to its end, on the
\* last of the processes
NextRead ==
    \E w \in {NumProcs} :
        \/ Steps(w)
        \/ Reads(w)
        \/ \E addresses \in MoreValidationPayloads :
              \/ create_queued_batch(w, addresses)
              \/ validate_and_store(w, addresses)

\* the system with the reading requests, without concurrency and with a
\* wider choice of request records
SpecRead == Init /\ [][NextRead]_vars

SpecStored == InitStored /\ [][Next]_vars

(***************************************************************************)
(* Workers that crash.  The asynchronous path: batches are created queued, *)
(* their events dispatched, and the worker jobs may die at any statement   *)
(* of process_existing_batch.                                              *)
(***************************************************************************)
\* where a worker job stands while it runs process_existing_batch
JobLabels ==
    {"process_begin", "process_locked", "recognition_begin", "recognition_mark",
     "recognition_delete", "recognition_insert"}

\* the session had written batch.status = "processing" through to the
\* database before the worker died
session_flushed(w) ==
    IF /\ pc[w] = "process_locked"
       /\ ~already_processed(loc[w].status, loc[w].batch_id)
       /\ loc[w].payload # <<>>
    THEN [batches EXCEPT ![loc[w].batch_id].status = "processing"]
    ELSE batches

\* the batch rows after the open transaction of w is rolled back: what was
\* assigned in the session and not committed is gone
session_rollback(w) == batches

\* the worker process of job w dies: its connection is closed, the open
\* transaction is rolled back and its locks are released; what the session
\* had committed stays
worker_crash(w) ==
    /\ pc[w] \in JobLabels
    /\ batches' = session_rollback(w)
    /\ items' = UnmarkItems(w)
    /\ lock' = [b \in BatchIds |-> IF lock[b] = w THEN 0 ELSE lock[b]]
    /\ Finish(w, Result("crash", pc[w], loc[w].batch_id, <<>>))
    /\ UNCHANGED <<pipeline, next_id, sent, passes>>

\* the steps of the asynchronous path, but for the start of a job
CrashSteps(w) ==
    \/ \E addresses \in Payloads(ValidationRequests) :
          create_queued_batch(w, addresses)
    \/ validate_addresses_enqueue(w)
    \/ \E addresses \in Payloads(RecognitionRequests) :
          recognition_create_queued_batch(w, addresses)
    \/ recognize_addresses_enqueue(w)
    \/ \E b \in BatchIds : requeue_batch_lock(w, b)
    \/ process_existing_batch_lock(w)
    \/ process_existing_batch_run(w)
    \/ requeue_batch_run(w)
    \/ requeue_validation_batch_enqueue(w)
    \/ recognition_process_get(w)
    \/ recognition_process_mark(w)
    \/ recognition_process_delete(w)
    \/ recognition_process_commit(w)
    \/ worker_crash(w)

\* a job may start for any id at any time: events are delivered late, or
\* twice
NextCrash ==
    \E w \in Procs :
        \/ CrashSteps(w)
        \/ \E b \in BatchIds :
              \/ validate_addresses_batch(w, b)
              \/ recognize_addresses_batch(w, b)

SpecCrash == Init /\ [][NextCrash]_vars

\* the queue hands an event dispatched for batch b to worker w (at least
\* once: any number of times)
deliver_validate_addresses_batch(w, b) ==
    /\ sent[b] > 0
    /\ validate_addresses_batch(w, b)

deliver_recognize_addresses_batch(w, b) ==
    /\ sent[b] > 0
    /\ recognize_addresses_batch(w, b)

\* jobs start for dispatched events only
NextLive ==
    \E w \in Procs :
        \/ CrashSteps(w)
        \/ \E b \in BatchIds :
              \/ deliver_validate_addresses_batch(w, b)
              \/ deliver_recognize_addresses_batch(w, b)

\* the jobs that are running process_existing_batch on batch b
JobsOn(b) == {w \in Procs : pc[w] \in JobLabels /\ loc[w].batch_id = b}

\* a database in which the ids before the last one belonged to batches that
\* were deleted: the run creates one batch
InitLive ==
    /\ pipeline \in Pipelines
    /\ batches = [b \in BatchIds |-> NoRow]
    /\ items = <<>>
    /\ next_id = MaxBatches
    /\ lock = [b \in BatchIds |-> 0]
    /\ sent = [b \in BatchIds |-> 0]
    /\ passes = [b \in BatchIds |-> 0]
    /\ pc = [w \in Procs |-> "idle"]
    /\ loc = [w \in Procs |-> NoLoc]
    /\ resp = NoResp

\* at-least-once delivery: while batch b is neither completed nor failed
\* and no job runs on it, the queue hands its event to a worker (again,
\* after a crash)
Deliver(b) ==
    /\ batches[b].status \in {"queued", "processing"}
    /\ JobsOn(b) = {}
    /\ \E w \in Procs :
          \/ deliver_validate_addresses_batch(w, b)
          \/ deliver_recognize_addresses_batch(w, b)

\* the statements of a request handler after its first
HandlerStep(w) ==
    \/ validate_addresses_enqueue(w)
    \/ recognize_addresses_enqueue(w)
    \/ requeue_batch_run(w)
    \/ requeue_validation_batch_enqueue(w)

\* the operator requeues a batch that is processing with no job on it
OperatorRequeue(b) ==
    /\ batches[b].status = "processing"
    /\ JobsOn(b) = {}
    /\ \E w \in Procs : requeue_batch_lock(w, b)

\* process_existing_batch_run(w) can be taken: the job holds the row lock,
\* and returns early or finds no item of the batch locked
process_existing_batch_ready(w) ==
    /\ pc[w] = "process_locked"
    /\ \/ already_processed(loc[w].status, loc[w].batch_id)
       \/ loc[w].payload = <<>>
       \/ ~ItemsLockedByOther(w, loc[w].batch_id)

\* every event is delivered in the end; a request handler runs to its end;
\* a job statement that is ready again and again is executed in the end,
\* that is, the workers do not crash for ever.  The strong fairness of
\* process_existing_batch_run is written out, with its enabling condition
Fairness ==
    /\ WF_vars(\E b \in BatchIds : Deliver(b))
    /\ WF_vars(\E b \in BatchIds : OperatorRequeue(b))
    /\ WF_vars(\E w \in Procs : HandlerStep(w))
    /\ SF_vars(\E w \in Procs : process_existing_batch_lock(w))
    /\ \/ []<><<\E w \in Procs : process_existing_batch_run(w)>>_vars
       \/ <>[](~\E w \in Procs : process_existing_batch_ready(w))
    /\ SF_vars(\E w \in Procs : recognition_process_get(w))
    /\ SF_vars(\E w \in Procs : recognition_process_mark(w))
    /\ SF_vars(\E w \in Procs : recognition_process_delete(w))
    /\ SF_vars(\E w \in Procs : recognition_process_commit(w))

SpecLive == InitLive /\ [][NextLive]_vars /\ Fairness

(***************************************************************************)
(* The pure functions on their own: one address record is drawn, and the   *)
(* functions are applied to it, and to their own result.  resp holds the   *)
(* record and what was computed from it.                                   *)
(***************************************************************************)
\* a key the dict does not have
AbsentV == [t |-> "absent"]
dict_of(f) == [k \in {k \in DOMAIN f : f[k] # AbsentV} |-> f[k]]

\* values of the fields of the records drawn: str | int | None, or no key
LineValues == {AbsentV, StrV(<<" ", "a">>)}
CountryValues == {StrV(<<"u", "s">>), StrV(<<"U", "s">>), StrV(<<"c", "a">>)}
PostalValues ==
    {AbsentV, NoneV, StrV(<<>>), StrV(<<" ">>), StrV(<<"1">>), IntV(0), IntV(1)}
IndicatorValues ==
    {AbsentV, NoneV, StrV(<<" ", "Y", "e", "s">>), StrV(<<"N", "O">>),
     StrV(unknown), StrV(<<"o", "k">>), IntV(1)}
EmailValues == {AbsentV, StrV(<<"A", "e", " ">>)}

\* the address records (dict[str, Any]) the functions are applied to: whole
\* ones, which AddressIn accepts, and partial ones
AddressRecords ==
    {dict_of([address_line1 |-> a,
              city_locality |-> IF a = AbsentV THEN AbsentV ELSE StrV(<<"a">>),
              state_province |-> IF a = AbsentV THEN AbsentV ELSE StrV(<<"c", "a">>),
              country_code |-> c,
              postal_code |-> p,
              address_residential_indicator |-> r,
              email |-> e]) :
        a \in LineValues, c \in CountryValues, p \in PostalValues,
        r \in IndicatorValues, e \in EmailValues}

InitRecord ==
    /\ pipeline \in Pipelines
    /\ batches = [b \in BatchIds |-> NoRow]
    /\ items = <<>>
    /\ next_id = 1
    /\ lock = [b \in BatchIds |-> 0]
    /\ sent = [b \in BatchIds |-> 0]
    /\ passes = [b \in BatchIds |-> 0]
    /\ pc = [w \in Procs |-> "idle"]
    /\ loc = [w \in Procs |-> NoLoc]
    /\ \E x \in AddressRecords : resp = Result("record", "", 0, <<x>>)

Database == <<pipeline, batches, items, next_id, lock, sent, passes, pc, loc>>

\* _normalize(x)
call_normalize ==
    /\ pipeline = "validation"
    /\ resp.op = "record"
    /\ resp' = Result("_normalize", "", 0,
                      <<resp.results[1], _normalize(resp.results[1])>>)
    /\ UNCHANGED Database

\* _normalize(_normalize(x))
call_normalize_again ==
    /\ resp.op = "_normalize"
    /\ Len(resp.results) = 2
    /\ resp' = [resp EXCEPT !.results = Append(@, _normalize(resp.results[2]))]
    /\ UNCHANGED Database

\* _recognize_one(x)
call_recognize_one ==
    /\ pipeline = "recognition"
    /\ resp.op = "record"
    /\ resp' = Result("_recognize_one", "", 0,
                      <<resp.results[1], _recognize_one(resp.results[1])>>)
    /\ UNCHANGED Database

\* _recognize_one(_recognize_one(x))
call_recognize_one_again ==
    /\ resp.op = "_recognize_one"
    /\ Len(resp.results) = 2
    /\ resp' = [resp EXCEPT !.results = Append(@, _recognize_one(resp.results[2]))]
    /\ UNCHANGED Database

\* _status_and_messages(addr) for the AddressIn a whole record parses to
call_status_and_messages ==
    /\ pipeline = "validation"
    /\ resp.op = "record"
    /\ AddressIn_ok(resp.results[1])
    /\ resp' = Result("_status_and_messages", "", 0,
                      <<resp.results[1], AddressIn(resp.results[1]),
                        _status_and_messages(AddressIn(resp.results[1]))>>)
    /\ UNCHANGED Database

NextRecord ==
    \/ call_normalize
    \/ call_normalize_again
    \/ call_recognize_one
    \/ call_recognize_one_again
    \/ call_status_and_messages

SpecRecord == InitRecord /\ [][NextRecord]_vars

(***************************************************************************)
(* Properties                                                              *)
(***************************************************************************)
\* the content of item rows as a reader sees them: a row deleted by an
\* uncommitted transaction is still there, and the time of the insert is
\* left aside
Visible(rows) ==
    [i \in 1..Len(rows) |-> [rows[i] EXCEPT !.xmax = 0, !.created_at = 0]]

\* one item per record of b's stored payload, in payload order, as
\* process_existing_batch derives them
ExpectedItems(b) ==
    LET payload == batches[b].request_payload
    IN  IF pipeline = "validation"
        THEN ValidationItems(b, [i \in 1..Len(payload) |-> AddressIn(payload[i])])
        ELSE RecognitionItems(b, [i \in 1..Len(payload) |-> AddressRecognizeIn(payload[i])])

ProcessJobsOn(b) ==
    {w \in Procs : pc[w] \notin {"idle", "validate_enqueue", "recognize_enqueue",
                                "requeue_enqueue"}
                   /\ loc[w].batch_id = b}

\* the items of b after the step
ItemsOfNext(b) == SelectSeq(items', LAMBDA it : it.batch_id = b)

\* the step ends a process_existing_batch call of w
ProcessEnds(w) == pc[w] # "idle" /\ pc'[w] = "idle" /\ resp'.op = "process"

\* C1 (validation): concurrent process_existing_batch calls on one batch are
\* serialized by the row lock; a call that finds a queued batch with a
\* non-empty payload makes the one generation pass, after every finished
\* call on a batch with non-empty payload the batch is completed and owns
\* exactly one item per payload record, and no batch ever gets a second pass
C1_ValidationOnePass ==
    /\ [](pipeline = "validation" =>
            /\ \A b \in BatchIds :
                  /\ passes[b] <= 1
                  /\ Cardinality({w \in Procs : pc[w] = "process_locked"
                                                /\ loc[w].batch_id = b}) <= 1
            /\ (resp.op = "process" /\ Exists(resp.batch_id)
                    /\ batches[resp.batch_id].request_payload # <<>>) =>
                  /\ resp.status \in {"completed", "skipped"}
                  /\ batches[resp.batch_id].status = "completed"
                  /\ Visible(ItemsOf(resp.batch_id)) = ExpectedItems(resp.batch_id))
    /\ [][pipeline = "validation" =>
            \A w \in Procs :
                (ProcessEnds(w) /\ batches[loc[w].batch_id].status = "queued"
                     /\ batches[loc[w].batch_id].request_payload # <<>>) =>
                   /\ resp'.status = "completed"
                   /\ passes'[loc[w].batch_id] = 1]_vars

\* C1 witness: a second call on a dispatched batch has finished after the
\* first one's pass, and the batch owns MaxLen items from that single pass
C1_Witness ==
    /\ pipeline = "validation"
    /\ resp.op = "process"
    /\ resp.status = "skipped"
    /\ sent[resp.batch_id] = 1
    /\ passes[resp.batch_id] = 1
    /\ batches[resp.batch_id].status = "completed"
    /\ Len(batches[resp.batch_id].request_payload) = MaxLen
    /\ Len(ItemsOf(resp.batch_id)) = MaxLen

\* C2 (recognition), as claimed: no batch gets a second generation pass,
\* and a completed batch with non-empty payload that no job is working on
\* owns exactly one item per payload record
C2_RecognitionOnePass ==
    pipeline = "recognition" =>
        \A b \in BatchIds :
            /\ passes[b] <= 1
            /\ (batches[b].status = "completed" /\ ProcessJobsOn(b) = {}
                    /\ batches[b].request_payload # <<>>) =>
                  Visible(ItemsOf(b)) = ExpectedItems(b)

\* C3, as claimed: in every committed state the items of a batch are none
\* or exactly one per record of its stored payload, and no item belongs to
\* a batch that is not there
C3_FullItemSetOrNone ==
    \A b \in BatchIds :
        /\ ~Exists(b) => ItemsOf(b) = <<>>
        /\ Exists(b) => \/ ItemsOf(b) = <<>>
                        \/ Visible(ItemsOf(b)) = ExpectedItems(b)

\* the validation pipeline's part of C3, which holds
C3_ValidationFullItemSetOrNone == pipeline = "validation" => C3_FullItemSetOrNone

\* C4: a process_existing_batch call that finds its batch completed with at
\* least one item returns at the guard and leaves every batch row, every
\* item and the dispatch events as they were
C4_ProcessOnCompletedIsNoOp ==
    [][\A w \in Procs :
          (/\ \/ pc[w] = "process_locked" /\ pc'[w] # "process_locked"
              \/ pc[w] = "recognition_begin" /\ pc'[w] # "recognition_begin"
           /\ batches[loc[w].batch_id].status = "completed"
           /\ ItemsOf(loc[w].batch_id) # <<>>) =>
             /\ pc'[w] = "idle"
             /\ resp' = Result("process", "skipped", loc[w].batch_id, <<>>)
             /\ UNCHANGED <<batches, items, sent, passes>>]_vars

\* C4 witness: a call has just returned at the guard of a completed batch
\* that owns all its items
C4_Witness ==
    /\ resp.op = "process"
    /\ resp.status = "skipped"
    /\ batches[resp.batch_id].status = "completed"
    /\ Len(ItemsOf(resp.batch_id)) = MaxLen

EnqueueLabels == {"validate_enqueue", "recognize_enqueue"}

C6_ValidationSyncCreate ==
    resp.op = "validate_sync" =>
        /\ resp.status = "200"
        /\ LET b == resp.batch_id
               payload == batches[b].request_payload
           IN  /\ batches[b].status = "completed"
               /\ Len(ItemsOf(b)) = Len(payload)
               /\ Len(resp.results) = Len(payload)
               /\ \A i \in 1..Len(payload) :
                     /\ ItemsOf(b)[i].original_address = payload[i]
                     /\ resp.results[i].original_address
                            = AddressOut(original_for_out(payload[i]))
                     /\ resp.results[i].matched_address
                            = AddressOut(_normalize(payload[i]))

\* C7, as claimed: every sync Create of the recognition pipeline answers
\* 200 with one result per payload record and has committed a completed
\* batch with one item per record
C7_RecognitionSyncCreate ==
    resp.op = "recognize_sync" =>
        /\ resp.status = "200"
        /\ LET b == resp.batch_id
               payload == batches[b].request_payload
           IN  /\ batches[b].status = "completed"
               /\ Len(ItemsOf(b)) = Len(payload)
               /\ Len(resp.results) = Len(payload)

\* C8, as claimed: a process_existing_batch call on an existing batch with
\* empty payload that is neither processing nor completed with items ends
\* with the batch failed and without items
C8_EmptyPayloadFails ==
    [][\A w \in Procs :
          (/\ ProcessEnds(w)
           /\ Exists(loc[w].batch_id)
           /\ batches[loc[w].batch_id].request_payload = <<>>
           /\ batches[loc[w].batch_id].status # "processing"
           /\ ~(batches[loc[w].batch_id].status = "completed"
                    /\ ItemsOf(loc[w].batch_id) # <<>>)) =>
             /\ batches'[loc[w].batch_id].status = "failed"
             /\ ItemsOfNext(loc[w].batch_id) = <<>>]_vars

Malformed(payload) ==
    \E i \in 1..Len(payload) :
        IF pipeline = "validation" THEN ~AddressIn_ok(payload[i])
        ELSE ~AddressRecognizeIn_ok(payload[i])

\* C9, as claimed: a process_existing_batch call that gets to parse a
\* stored payload with an unparseable record returns normally and leaves
\* the batch failed, without items
C9_MalformedPayloadFails ==
    [][\A w \in Procs :
          (/\ ProcessEnds(w)
           /\ pc[w] \in {"process_locked", "recognition_insert"}
           /\ ~(pc[w] = "process_locked"
                    /\ already_processed(loc[w].status, loc[w].batch_id))
           /\ Malformed(loc[w].payload)) =>
             /\ resp'.status # "raised"
             /\ batches'[loc[w].batch_id].status = "failed"
             /\ ItemsOfNext(loc[w].batch_id) = <<>>]_vars

\* C10: requeue_batch on a batch whose status is processing ends in 409
\* (not the 404 of an unknown id), goes past the enqueue_job call, and
\* leaves every batch row, every item and the dispatch events as they were
C10_RequeueProcessingConflict ==
    [][\A w \in Procs :
          /\ (pc[w] = "requeue_locked" /\ pc'[w] # "requeue_locked"
                  /\ batches[loc[w].batch_id].status = "processing") =>
                /\ pc'[w] = "idle"
                /\ resp' = Result("requeue", "409", loc[w].batch_id, <<>>)
                /\ UNCHANGED <<batches, items, sent, passes>>
          /\ (pc[w] = "idle" /\ pc'[w] = "requeue_locked") =>
                UNCHANGED <<batches, items, sent, passes>>]_vars

\* C10 witness: a requeue has just been answered 409 and its batch is
\* still processing
C10_Witness ==
    /\ resp.op = "requeue"
    /\ resp.status = "409"
    /\ batches[resp.batch_id].status = "processing"

\* the step ends the transaction of w's requeue_batch call other than by a
\* deadlock abort
RequeueCommits(w) ==
    pc[w] = "requeue_locked" /\ pc'[w] # "requeue_locked" /\ resp'.op # "deadlock"

C12_WitnessSuccess ==
    /\ resp.op = "requeue"
    /\ resp.status = "202"
    /\ batches[resp.batch_id].status = "queued"
    /\ sent[resp.batch_id] = 1

C14_ProcessMissing ==
    /\ [](\A b \in BatchIds : b >= next_id => ~Exists(b) /\ ItemsOf(b) = <<>>)
    /\ [][\A w \in Procs :
            (/\ pc[w] \in {"process_begin", "recognition_begin"}
             /\ pc'[w] # pc[w]
             /\ ~Exists(loc[w].batch_id)) =>
               /\ pc'[w] = "idle"
               /\ resp' = Result("process", "missing", loc[w].batch_id, <<>>)
               /\ UNCHANGED <<batches, items, sent, next_id, lock>>]_vars

\* C14 witness: the job of a dispatched batch has found the batch deleted
C14_Witness ==
    /\ resp.op = "process"
    /\ resp.status = "missing"
    /\ resp.batch_id < next_id
    /\ sent[resp.batch_id] = 1
    /\ ~Exists(resp.batch_id)
    /\ ItemsOf(resp.batch_id) = <<>>

\* the results a fetch of b returns when it returns b's items in the order
\* of the payload records they were generated from
ExpectedResults(b) ==
    [i \in 1..Len(ExpectedItems(b)) |->
        IF pipeline = "validation"
        THEN AddressValidationResultOut(ExpectedItems(b)[i])
        ELSE AddressRecognizeResultOut(ExpectedItems(b)[i])]

\* C15, as claimed: every fetch that returns the results of a batch whose
\* items are those of its payload returns one result per payload record,
\* in the order of the payload
C15_FetchInPayloadOrder ==
    (/\ resp.op = "fetch"
     /\ resp.status = "200"
     /\ Exists(resp.batch_id)
     /\ Visible(ItemsOf(resp.batch_id)) = ExpectedItems(resp.batch_id)) =>
        resp.results = ExpectedResults(resp.batch_id)

\* what holds of the order: the results are those of the payload records
\* in some order
C15_FetchSomeOrder ==
    (/\ resp.op = "fetch"
     /\ resp.status = "200"
     /\ Exists(resp.batch_id)
     /\ Visible(ItemsOf(resp.batch_id)) = ExpectedItems(resp.batch_id)) =>
        \E p \in Permutations(1..Len(resp.results)) :
            resp.results = [i \in 1..Len(resp.results) |->
                               ExpectedResults(resp.batch_id)[p[i]]]

\* C16, as claimed: a fetch answers 404 exactly when the batch id has no
\* items, and answers with a non-empty result list whenever it has some
C16_FetchNotFoundIffNoItems ==
    resp.op = "fetch" =>
        IF ItemsOf(resp.batch_id) = <<>>
        THEN resp.status = "404"
        ELSE resp.status = "200" /\ resp.results # <<>>

\* the part of C16 that holds: 404 exactly without items
C16_NotFoundOnlyWithoutItems ==
    resp.op = "fetch" => (resp.status = "404" <=> ItemsOf(resp.batch_id) = <<>>)

\* the batches a list request with this status filter is about
Selected(status_filter) ==
    {b \in BatchIds : /\ Exists(b)
                      /\ status_filter = "" \/ batches[b].status = status_filter}

\* C17: the page a list request returns has at most limit entries; its
\* i-th entry is the batch that has exactly offset + i - 1 later created
\* batches among those of the given status (all batches without filter),
\* so the page is the slice offset+1 .. offset+limit of them by creation
\* time descending; and each entry carries the batch's status, payload and
\* the number of item rows of the batch
C17_ListBatches ==
    resp.op = "list" =>
        LET q == resp.results[1]
            page == Tail(resp.results)
            S == Selected(q.status_filter)
            rest == IF Cardinality(S) > q.offset THEN Cardinality(S) - q.offset ELSE 0
        IN  /\ resp.status = "200"
            /\ Len(page) <= q.limit
            /\ Len(page) = IF rest < q.limit THEN rest ELSE q.limit
            /\ \A i \in 1..Len(page) :
                  /\ page[i].id \in S
                  /\ Cardinality({c \in S : batch_created_at(c) > batch_created_at(page[i].id)})
                        = q.offset + i - 1
                  /\ page[i].status = batches[page[i].id].status
                  /\ page[i].request_payload = batches[page[i].id].request_payload
                  /\ page[i].items_count
                        = Cardinality({k \in 1..Len(items) : items[k].batch_id = page[i].id})

\* C17 witness: with two completed batches, a list request with limit 1,
\* offset 1 and status completed has returned the older one, with its
\* MaxLen items counted
C17_Witness ==
    /\ resp.op = "list"
    /\ resp.results[1] = [limit |-> 1, offset |-> 1, status_filter |-> "completed"]
    /\ Cardinality(Selected("completed")) = MaxBatches
    /\ Len(resp.results) = 2
    /\ resp.results[2].id = 1
    /\ resp.results[2].items_count = MaxLen


(***************************************************************************)
(* C18: normalization is idempotent.  For every address record x,          *)
(* _normalize(_normalize(x)) equals _normalize(x) and                      *)
(* _recognize_one(_recognize_one(x)) equals _recognize_one(x): whenever a  *)
(* function has been applied to a record and then to its own result, the   *)
(* second result is the first one.                                         *)
(***************************************************************************)
C18_NormalizeIdempotent ==
    (resp.op \in {"_normalize", "_recognize_one"} /\ Len(resp.results) = 3)
        => resp.results[3] = resp.results[2]

\* _normalize applied twice to a record it changes: the indicator " Yes",
\* an address line and an email to trim and to change the case of
C18_Witness ==
    /\ resp.op = "_normalize"
    /\ Len(resp.results) = 3
    /\ "email" \in DOMAIN resp.results[1]
    /\ "address_line1" \in DOMAIN resp.results[1]
    /\ "address_residential_indicator" \in DOMAIN resp.results[1]
    /\ resp.results[1]["address_residential_indicator"] = StrV(<<" ", "Y", "e", "s">>)
    /\ resp.results[2]["address_residential_indicator"] = StrV(yes)
    /\ resp.results[2]["address_line1"] = StrV(<<"A">>)
    /\ resp.results[2]["email"] = StrV(<<"a", "e">>)

\* the same for _recognize_one, on a record with a null indicator
C18_WitnessRecognizeOne ==
    /\ resp.op = "_recognize_one"
    /\ Len(resp.results) = 3
    /\ "address_residential_indicator" \in DOMAIN resp.results[1]
    /\ resp.results[1]["address_residential_indicator"] = NoneV
    /\ resp.results[2]["address_residential_indicator"] = StrV(unknown)
    /\ resp.results[2]["country_code"] = StrV(<<"U", "S">>)

\* what the indicator of record x is to become: the trimmed lower-case form
\* of a variant of unknown, yes or no, and "unknown" for anything else
ExpectedIndicator(x) ==
    IF /\ "address_residential_indicator" \in DOMAIN x
       /\ IsStr(x["address_residential_indicator"])
       /\ lower(strip(x["address_residential_indicator"].s)) \in ResidentialIndicator
    THEN StrV(lower(strip(x["address_residential_indicator"].s)))
    ELSE StrV(unknown)

(***************************************************************************)
(* C19: the normalized indicator is in the closed set.  For every input    *)
(* record, the address_residential_indicator of the record _normalize or   *)
(* _recognize_one returns is one of "unknown", "yes", "no": the trimmed    *)
(* lower-case form when the input is a case or whitespace variant of one   *)
(* of them, and "unknown" for every other value, an absent field and null  *)
(* included.                                                               *)
(***************************************************************************)
C19_IndicatorInClosedSet ==
    (resp.op \in {"_normalize", "_recognize_one"})
        => /\ IsStr(resp.results[2]["address_residential_indicator"])
           /\ resp.results[2]["address_residential_indicator"].s \in ResidentialIndicator
           /\ resp.results[2]["address_residential_indicator"]
                 = ExpectedIndicator(resp.results[1])

\* the part that holds: a string or an absent indicator, in both functions,
\* and a null one in _recognize_one
C19_IndicatorOfStringOrAbsent ==
    (/\ resp.op \in {"_normalize", "_recognize_one"}
     /\ \/ "address_residential_indicator" \notin DOMAIN resp.results[1]
        \/ IsStr(resp.results[1]["address_residential_indicator"])
        \/ /\ resp.op = "_recognize_one"
           /\ IsNone(resp.results[1]["address_residential_indicator"]))
        => resp.results[2]["address_residential_indicator"]
              = ExpectedIndicator(resp.results[1])

\* _normalize hands a null indicator back as null
C19_NormalizeKeepsNull ==
    (/\ resp.op = "_normalize"
     /\ "address_residential_indicator" \in DOMAIN resp.results[1]
     /\ IsNone(resp.results[1]["address_residential_indicator"]))
        => IsNone(resp.results[2]["address_residential_indicator"])

\* AddressIn puts the indicator into the closed set before _normalize or
\* _status_and_messages see the record
C19_AddressInIndicator ==
    (resp.op = "_status_and_messages")
        => resp.results[2]["address_residential_indicator"]
              = ExpectedIndicator(resp.results[1])

\* the record's country code is "US" in some case
IsUS(x) == lower(x["country_code"].s) = <<"u", "s">>

\* the record has no postal_code, or a null or empty one
NoPostalCode(x) ==
    \/ "postal_code" \notin DOMAIN x
    \/ IsNone(x["postal_code"])
    \/ x["postal_code"] = StrV(<<>>)

(***************************************************************************)
(* C20: validation status and the postal code warning.  Every record gets  *)
(* the status "verified", and gets the single warning missing_postal_code  *)
(* if and only if its country code, compared without regard to case, is    *)
(* "US" and its postal_code is absent or empty; a record of another        *)
(* country without a postal code gets no message.                          *)
(***************************************************************************)
C20_MissingPostalCode ==
    (resp.op = "_status_and_messages")
        => /\ resp.results[3].status = "verified"
           /\ resp.results[3].messages =
                 IF IsUS(resp.results[1]) /\ NoPostalCode(resp.results[1])
                 THEN <<missing_postal_code>>
                 ELSE <<>>

\* what holds: the warning is given to a US record whose postal_code is
\* absent, null, empty or the integer 0, and to no other record
C20_MissingOrZeroPostalCode ==
    (resp.op = "_status_and_messages")
        => /\ resp.results[3].status = "verified"
           /\ resp.results[3].messages =
                 IF /\ IsUS(resp.results[1])
                    /\ \/ NoPostalCode(resp.results[1])
                       \/ resp.results[1]["postal_code"] = IntV(0)
                 THEN <<missing_postal_code>>
                 ELSE <<>>

\* the edges of the status machine: from status s of a batch that has items
\* or not and stores payload, to status t.  Process leaves queued, failed
\* and completed-without-items for failed (empty payload) or for processing
\* and then completed (a transaction that commits only its end goes to
\* completed at once); Requeue leaves every status but processing for
\* queued, or failed (empty payload)
StatusEdge(s, has_items, payload, t) ==
    LET process_from == s \in {"queued", "failed"} \/ (s = "completed" /\ ~has_items)
    IN  \/ process_from /\ payload = <<>> /\ t = "failed"
        \/ process_from /\ payload # <<>> /\ t \in {"processing", "completed"}
        \/ s = "processing" /\ t = "completed"
        \/ s # "processing" /\ payload # <<>> /\ t = "queued"
        \/ s # "processing" /\ payload = <<>> /\ t = "failed"

\* every change of the committed status of a batch that stays is an edge
StatusChangesAreEdges ==
    \A b \in BatchIds :
        (Exists(b) /\ batches'[b].status \notin {"absent", batches[b].status})
            => StatusEdge(batches[b].status, ItemsOf(b) # <<>>,
                          batches[b].request_payload, batches'[b].status)

(***************************************************************************)
(* C21: every committed change of a batch's status follows an edge of the  *)
(* status machine and no other: Process moves a queued, failed or          *)
(* completed-without-items batch to failed (empty payload) or through      *)
(* processing to completed; Requeue moves a batch of any status but        *)
(* processing to queued or (empty payload) failed.  In particular no step  *)
(* moves a completed batch that has items to processing, in either         *)
(* pipeline, whatever the interleaving of the workers.                     *)
(***************************************************************************)
C21_StatusEdges == [][StatusChangesAreEdges]_vars

\* the validation pipeline's part of C21, which holds
C21_ValidationStatusEdges ==
    [][pipeline = "validation" => StatusChangesAreEdges]_vars

\* the step of the recognition pipeline that is no edge
C21_NoCompletedToProcessing ==
    [][\A b \in BatchIds :
          ~(/\ batches[b].status = "completed"
            /\ ItemsOf(b) # <<>>
            /\ batches'[b].status = "processing")]_vars

\* the process_existing_batch and requeue_batch calls that are between
\* their SELECT ... FOR UPDATE of batch row b and their commit
InsideLock(b) ==
    {w \in Procs : pc[w] \in {"process_locked", "requeue_locked"}
                   /\ loc[w].batch_id = b}

(***************************************************************************)
(* C22 (validation): Process and Requeue on one batch id exclude each      *)
(* other from lock acquisition to commit, so whatever the interleaving of  *)
(* a Process and a Requeue, or of two Requeues, the committed state is     *)
(* that of a serial order: a batch with a non-empty payload is queued with *)
(* no items or completed with one item per payload record, never queued    *)
(* with items and never completed without items.                           *)
(***************************************************************************)
C22_ProcessRequeueSerialized ==
    pipeline = "validation" =>
        \A b \in BatchIds :
            /\ Cardinality(InsideLock(b)) <= 1
            /\ InsideLock(b) # {} => \A w \in InsideLock(b) : lock[b] = w
            /\ (Exists(b) /\ batches[b].request_payload # <<>>) =>
                  \/ batches[b].status = "queued" /\ ItemsOf(b) = <<>>
                  \/ /\ batches[b].status = "completed"
                     /\ Len(ItemsOf(b)) = Len(batches[b].request_payload)

\* C22 witness: a Requeue holds the row lock of a completed batch that owns
\* MaxLen items while a Process job on the same batch waits for the lock
C22_Witness ==
    /\ pipeline = "validation"
    /\ \E w \in Procs : \E v \in Procs :
          /\ pc[w] = "requeue_locked"
          /\ pc[v] = "process_begin"
          /\ loc[v].batch_id = loc[w].batch_id
          /\ lock[loc[w].batch_id] = w
          /\ batches[loc[w].batch_id].status = "completed"
          /\ Len(ItemsOf(loc[w].batch_id)) = MaxLen

\* the step is the crash of job w after process_existing_batch has assigned
\* batch.status = "processing" and before its last commit
CrashAfterProcessing(w) ==
    /\ resp'.op = "crash"
    /\ pc[w] # "idle"
    /\ pc'[w] = "idle"
    /\ \/ /\ pc[w] = "process_locked"
          /\ ~already_processed(loc[w].status, loc[w].batch_id)
          /\ loc[w].payload # <<>>
       \/ pc[w] \in {"recognition_delete", "recognition_insert"}

(***************************************************************************)
(* C23: a worker that crashes during Process after the status was set to   *)
(* processing and before the items and the completed status are committed  *)
(* leaves the batch committed as processing with no partially written      *)
(* items, in both pipelines: not completed with a partial item set, and    *)
(* not back in queued.                                                     *)
(***************************************************************************)
C23_CrashLeavesProcessing ==
    [][\A w \in Procs :
          CrashAfterProcessing(w) =>
             /\ batches'[loc[w].batch_id].status = "processing"
             /\ Visible(items') = Visible(items)]_vars

\* what holds in both pipelines: the crash commits no item and no status
C23_CrashCommitsNothing ==
    [][\A w \in Procs :
          CrashAfterProcessing(w) =>
             /\ batches' = batches
             /\ Visible(items') = Visible(items)
             /\ batches'[loc[w].batch_id].status = "completed" =>
                   Len(ItemsOfNext(loc[w].batch_id)) >=
                      Len(batches[loc[w].batch_id].request_payload)]_vars

\* the validation pipeline: the batch is not processing after the crash, it
\* has the status it had before the job
C23_ValidationCrashRestoresStatus ==
    [][\A w \in Procs :
          (pipeline = "validation" /\ CrashAfterProcessing(w)) =>
             /\ batches'[loc[w].batch_id].status = loc[w].status
             /\ batches'[loc[w].batch_id].status # "processing"]_vars

\* the recognition pipeline, a job alone on its batch: the batch is
\* processing after the crash
C23_RecognitionCrashLeavesProcessing ==
    [][\A w \in Procs :
          (pipeline = "recognition" /\ CrashAfterProcessing(w)
               /\ ProcessJobsOn(loc[w].batch_id) = {w}
               /\ passes[loc[w].batch_id] = 0) =>
             batches'[loc[w].batch_id].status = "processing"]_vars

\* batch b is processing and no job is running on it
Stuck(b) == Exists(b) /\ batches[b].status = "processing" /\ JobsOn(b) = {}

(***************************************************************************)
(* C24: a batch left in processing by a crashed worker is stuck only until *)
(* the operator acts: from every state in which a batch is processing with *)
(* no live worker, Requeue, its dispatch and a Process bring the batch to  *)
(* completed.  With an operator who requeues stuck batches, events that    *)
(* are delivered and workers that do not crash for ever, a stuck batch     *)
(* becomes completed.                                                      *)
(***************************************************************************)
C24_StuckBatchRecovers ==
    \A b \in BatchIds : Stuck(b) ~> (batches[b].status = "completed")

\* what the recognition pipeline does instead: a batch that is processing
\* with no job past the status check stays so at every step
C24_RecognitionStuckForEver ==
    [][\A b \in BatchIds :
          (/\ pipeline = "recognition"
           /\ batches[b].status = "processing"
           /\ \A w \in JobsOn(b) : pc[w] = "recognition_begin")
             => /\ batches'[b].status = "processing"
                /\ \A w \in Procs :
                      (pc'[w] \in JobLabels /\ loc'[w].batch_id = b)
                         => pc'[w] = "recognition_begin"]_vars

\* the validation pipeline has no such state to recover from
C24_ValidationNeverStuck ==
    pipeline = "validation" => \A b \in BatchIds : batches[b].status # "processing"

\* an event was dispatched for batch b, whose payload is not empty
Dispatched(b) == Exists(b) /\ sent[b] > 0 /\ batches[b].request_payload # <<>>

\* b is completed with one item per payload record
Done(b) ==
    /\ batches[b].status = "completed"
    /\ Len(ItemsOf(b)) = Len(batches[b].request_payload)

(***************************************************************************)
(* C25: liveness under at-least-once delivery.  If every dispatch event is *)
(* delivered in the end, and again when the worker crashed before it       *)
(* finished, every batch created by async Create or requeued with a        *)
(* non-empty payload that parses becomes completed with exactly one item   *)
(* per payload record, with no operator action, in both pipelines, also    *)
(* when workers crash at any statement of Process.                         *)
(***************************************************************************)
C25_DispatchedBatchCompletes ==
    \A b \in BatchIds : Dispatched(b) ~> Done(b)

\* the validation pipeline's part of C25, which holds
C25_ValidationDispatchedBatchCompletes ==
    \A b \in BatchIds : (pipeline = "validation" /\ Dispatched(b)) ~> Done(b)

\* leaving the number of items aside: a dispatched batch becomes completed.
\* It does not in the recognition pipeline, where a crash after the commit
\* of processing leaves a status that every later job skips
C25_DispatchedBatchReachesCompleted ==
    \A b \in BatchIds : Dispatched(b) ~> (batches[b].status = "completed")

\* the batches whose row or items the step changes
Touched ==
    {b \in BatchIds : batches'[b] # batches[b] \/ ItemsOfNext(b) # ItemsOf(b)}

\* the batch id the step's request or job is about: the one its handler or
\* job carries, or, for a request of one step, the one of its response
OperatesOn(b) ==
    \/ \E w \in Procs :
          /\ pc'[w] # pc[w] \/ loc'[w] # loc[w]
          /\ b = IF pc[w] = "idle" THEN loc'[w].batch_id ELSE loc[w].batch_id
    \/ pc' = pc /\ loc' = loc /\ b = resp'.batch_id

(***************************************************************************)
(* C26: batches are independent.  A step of Create, Process, Requeue or    *)
(* Delete on batch id b leaves the status, the payload and the items of    *)
(* every other batch unchanged, and a Process or Requeue that holds the    *)
(* row lock of b never blocks a Process or Requeue on another batch id:    *)
(* a call that asks for the lock of a row nobody holds gets it.            *)
(***************************************************************************)
C26_BatchesIndependent ==
    /\ [][\A b \in Touched : OperatesOn(b)]_vars
    /\ [](\A w \in Procs :
            /\ (pc[w] = "process_begin" /\ lock[loc[w].batch_id] = 0)
                  => ENABLED process_existing_batch_lock(w)
            /\ \A b \in BatchIds :
                  (pipeline = "validation" /\ pc[w] = "idle" /\ lock[b] = 0
                       /\ sent[b] < MaxEvents)
                     => ENABLED requeue_batch_lock(w, b))

\* C26 witness: a Requeue holds the row lock of one batch that owns items
\* while a Process job on another batch, queued, is about to take its lock
C26_Witness ==
    \E w \in Procs : \E v \in Procs :
        /\ pc[w] = "requeue_locked"
        /\ lock[loc[w].batch_id] = w
        /\ ItemsOf(loc[w].batch_id) # <<>>
        /\ pc[v] = "process_begin"
        /\ loc[v].batch_id # loc[w].batch_id
        /\ batches[loc[v].batch_id].status = "queued"
        /\ batches[loc[v].batch_id].request_payload # <<>>

(***************************************************************************)
(* C27 (validation): in every committed state reachable by any sequence    *)
(* and interleaving of Create, Process, Requeue and Delete, a batch whose  *)
(* status is queued or failed owns no item, and a batch whose status is    *)
(* completed owns exactly as many items as its stored payload has records. *)
(***************************************************************************)
C27_ItemsMatchStatus ==
    pipeline = "validation" =>
        \A b \in BatchIds :
            /\ batches[b].status \in {"queued", "failed"} => Len(ItemsOf(b)) = 0
            /\ batches[b].status = "completed" =>
                  Len(ItemsOf(b)) = Len(batches[b].request_payload)

\* C27 witness: a batch of MaxLen records has just been requeued and its
\* event dispatched, and is queued with no item, while another batch is
\* failed
C27_Witness ==
    /\ pipeline = "validation"
    /\ \E b \in BatchIds : \E c \in BatchIds :
          /\ batches[b].status = "queued"
          /\ Len(batches[b].request_payload) = MaxLen
          /\ resp = Result("requeue", "202", b, <<>>)
          /\ ItemsOf(b) = <<>>
          /\ batches[c].status = "failed"

\* and a completed batch owns MaxLen items while a job is about to run on it
C27_WitnessCompleted ==
    /\ pipeline = "validation"
    /\ \E b \in BatchIds :
          /\ batches[b].status = "completed"
          /\ Len(ItemsOf(b)) = MaxLen
          /\ \E w \in Procs : pc[w] = "process_locked" /\ loc[w].batch_id = b

(***************************************************************************)
(* C28 (validation): no committed, reader-visible state has a batch in     *)
(* status processing, because Process assigns processing and completed in  *)
(* the same unit of work and a failure rolls both back; so a Requeue of a  *)
(* validation batch never ends in Conflict, and no reader is shown         *)
(* processing.                                                             *)
(***************************************************************************)
C28_ProcessingNeverCommitted ==
    pipeline = "validation" =>
        /\ \A b \in BatchIds : batches[b].status # "processing"
        /\ resp.op = "requeue" => resp.status \in {"202", "404"}
        /\ \A w \in Procs :
              pc[w] \in {"process_locked", "requeue_locked"} =>
                 loc[w].status # "processing"

\* C28 witness: a worker has died inside the transaction of Process, after
\* the assignment of processing, and the batch is queued
C28_Witness ==
    /\ pipeline = "validation"
    /\ resp.op = "crash"
    /\ resp.status = "process_locked"
    /\ batches[resp.batch_id].status = "queued"
    /\ batches[resp.batch_id].request_payload # <<>>
    /\ lock[resp.batch_id] = 0

\* and a Requeue was accepted while a job on the same batch is about to
\* take the row lock
C28_WitnessRequeueAccepted ==
    /\ pipeline = "validation"
    /\ resp = Result("requeue", "202", resp.batch_id, <<>>)
    /\ \E w \in Procs : pc[w] = "process_begin" /\ loc[w].batch_id = resp.batch_id
    /\ batches[resp.batch_id].status = "queued"

====
